---- MODULE Spec2Model ----
(***************************************************************************)
(* One call of fcm_class_mask or gmm_class_mask                            *)
(* (intensity_normalization/utilities/mask.py).                            *)
(*                                                                         *)
(* An image is modelled by its voxels in numpy's flat (C) order, so a      *)
(* shape is a length.  The two fitting routines, skfuzzy.cmeans and        *)
(* sklearn's GaussianMixture, are libraries: a fit is a nondeterministic   *)
(* choice among the results they can hand back.  Memberships and           *)
(* posteriors are counted in units of 1/Unit, so "sums to 1" reads "sums   *)
(* to Unit".  Cluster and component ids are 0-based as in the source.      *)
(***************************************************************************)
EXTENDS Integers, Sequences, FiniteSets, TLC

\* Longest image and longest brain mask, in voxels.
MaxLen == 2
\* Resolution of a membership / posterior value: 0/Unit .. Unit/Unit.
Unit == 2
\* cmeans(..., 3, 2, 0.005, 50): three clusters.
NumClusters == 3
\* GaussianMixture(3): three components.
NumComponents == 3

Clusters == 0 .. (NumClusters - 1)
Components == 0 .. (NumComponents - 1)
\* Centers, weights and means are read through comparisons only (sorted,
\* argsort, max): as many levels as there are clusters realise every
\* ordering of them, ties included.
Levels == 1 .. NumClusters
\* The code reads an intensity through "> 0" only; the rest is the fit's.
Intensities == {0, 1}
MaskValues == {0, 1}
Contrasts == {"t1", "t2", "unrecognized"}

VARIABLES
    fn,               \* "fcm" | "gmm": which function was called
    img_data,         \* img.get_data(), flat
    has_mask,         \* brain_mask is not None
    brain_mask,       \* brain_mask.get_data(), flat (<<>> when None)
    contrast, return_wm_peak, hard_seg,
    pc,               \* "call" | "masked" | "extracted" | "fitted" (gmm) | "returned" | "raised"
    mask_data,        \* the boolean inclusion mask
    brain,            \* img_data[mask_data]
    fit_invoked,      \* cmeans / GaussianMixture.fit has been entered
    t1_cntr, t1_mem,  \* cmeans' centers and membership rows
    weights, means,   \* gmm.weights_, gmm.means_
    classes,          \* np.argsort(weights)
    tmp_predicted,    \* gmm.predict(brain)
    predicted_proba,  \* gmm.predict_proba(brain)
    ret_kind,         \* "none" | "soft" | "hard" | "peak"
    mask,             \* the returned array
    wm_peak,          \* the returned scalar
    err               \* "" or the exception that left the call

vars == <<fn, img_data, has_mask, brain_mask, contrast, return_wm_peak, hard_seg,
          pc, mask_data, brain, fit_invoked, t1_cntr, t1_mem, weights, means,
          classes, tmp_predicted, predicted_proba, ret_kind, mask, wm_peak, err>>

\* ------------------------------------------------------------------ numpy

SeqsUpTo(S, n) == UNION {[1 .. k -> S] : k \in 1 .. n}

UniformSeqsUpTo(S, n) == UNION {{[x \in 1 .. k |-> v] : v \in S} : k \in 1 .. n}

\* a > 0, elementwise.
Positive(a) == [x \in 1 .. Len(a) |-> a[x] > 0]

\* len(m[m]): the number of true entries.
CountTrue(m) == Cardinality({x \in 1 .. Len(m) : m[x]})

\* The place of position x among the true positions of m, in index order.
RankIn(m, x) == Cardinality({y \in 1 .. x : m[y]})

\* The j-th true position of m, in index order.
TruePos(m, j) == CHOOSE x \in 1 .. Len(m) : m[x] /\ RankIn(m, x) = j

\* a[m] for a boolean m of a's shape.
Take(a, m) == [j \in 1 .. CountTrue(m) |-> a[TruePos(m, j)]]

\* a[m] = vals for a boolean m of a's shape.
Put(a, m, vals) == [x \in 1 .. Len(a) |-> IF m[x] THEN vals[RankIn(m, x)] ELSE a[x]]

\* a[..., i][m] = vals   (also a[m, i] = vals).
PutSlice(a, i, m, vals) ==
    [x \in 1 .. Len(a) |-> IF m[x] THEN [a[x] EXCEPT ![i] = vals[RankIn(m, x)]] ELSE a[x]]

\* np.zeros(shape) and np.zeros(shape + (3,)).
Zeros(n) == [x \in 1 .. n |-> 0]
Zeros3(n) == [x \in 1 .. n |-> [c \in Clusters |-> 0]]

\* np.argmax of one row: the first index holding the greatest value.
Argmax(row) ==
    CHOOSE i \in DOMAIN row :
        /\ \A j \in DOMAIN row : row[j] <= row[i]
        /\ \A j \in DOMAIN row : j < i => row[j] < row[i]

\* ------------------------------------------------------- inclusion mask

InclusionMaskGe(img, given, bm) ==
    IF given THEN [x \in 1 .. Len(bm) |-> bm[x] >= 0] ELSE [x \in 1 .. Len(img) |-> img[x] >= 0]

InclusionMask(img, given, bm) == IF given THEN Positive(bm) ELSE Positive(img)

\* ------------------------------------------------------- fcm_class_mask

\* Python's sorted() is stable: equal keys keep their index order.
Before(key, a, b) == key[a] < key[b] \/ (key[a] = key[b] /\ a < b)

SortedIndexDesc(key) ==
    [i \in Clusters |->
        CHOOSE a \in Clusters : Cardinality({b \in Clusters : Before(key, a, b)}) = i]

\* [i for i, _ in sorted(enumerate(key), key=lambda x: x[1])]
SortedIndex(key) ==
    [i \in Clusters |->
        CHOOSE a \in Clusters : Cardinality({b \in Clusters : Before(key, b, a)}) = i]

\* t1_mem_list: cmeans' membership rows, by ascending center.
T1MemList(cntr, mem) ==
    LET order == SortedIndex(cntr)
    IN  [i \in Clusters |-> mem[order[i]]]

\* for i in range(3): mask[..., i][mask_data] = t1_mem_list[i]
RECURSIVE FcmScatterFrom(_, _, _, _, _)
FcmScatterFrom(a, m, mem_list, i, stop) ==
    IF i >= stop THEN a
    ELSE FcmScatterFrom(PutSlice(a, i, m, mem_list[i]), m, mem_list, i + 1, stop)

FcmSoftMaskShort(n, m, cntr, mem) ==
    FcmScatterFrom(Zeros3(n), m, T1MemList(cntr, mem), 0, NumClusters - 1)

FcmSoftMask(n, m, cntr, mem) ==
    FcmScatterFrom(Zeros3(n), m, T1MemList(cntr, mem), 0, NumClusters)

\* tmp_mask[mask_data] = np.argmax(mask[mask_data], axis=1) + 1
FcmHardMask(n, m, soft) ==
    LET rows == Take(soft, m)
    IN  Put(Zeros(n), m, [j \in 1 .. CountTrue(m) |-> Argmax(rows[j]) + 1])

\* What fcm_class_mask returns once cmeans has returned.
FcmResult(n, m, cntr, mem, hard) ==
    LET soft == FcmSoftMask(n, m, cntr, mem)
    IN  IF hard THEN FcmHardMask(n, m, soft) ELSE soft

\* ------------------------------------------------------- gmm_class_mask

Permutations3 ==
    {p \in [Components -> Components] : \A a, b \in Components : p[a] = p[b] => a = b}

ArgsortNone(w) == {[c \in Components |-> c]}

\* np.argsort(w): the default sort is not stable, so equal weights may
\* come back in either order.
Argsort(w) ==
    {p \in Permutations3 : \A i \in Components : i + 1 \in Components => w[p[i]] <= w[p[i + 1]]}

\* max(means)
MinOf(f) == CHOOSE v \in {f[c] : c \in DOMAIN f} : \A c \in DOMAIN f : f[c] >= v

MaxOf(f) == CHOOSE v \in {f[c] : c \in DOMAIN f} : \A c \in DOMAIN f : f[c] <= v

\* max(zip(means, weights), key=lambda x: x[1])[0]: max() keeps the first
\* of several greatest keys.
PeakByMean(mu, w) == mu[Argmax(mu)]

PeakByWeight(mu, w) == mu[Argmax(w)]

WmPeakMin(mu, w, con) == IF con = "t1" THEN MinOf(mu) ELSE PeakByWeight(mu, w)

WmPeak(mu, w, con) == IF con = "t1" THEN MaxOf(mu) ELSE PeakByWeight(mu, w)

\* The value written for the i-th class of the ordering: i + 1.
RankLabelZeroBased(i) == i

RankLabel(i) == i + 1

\* for i, c in enumerate(classes): predicted[tmp_predicted == c] = i + 1
RECURSIVE Relabel(_, _, _, _)
Relabel(predicted, tmp, cls, i) ==
    IF i >= NumComponents THEN predicted
    ELSE Relabel([j \in DOMAIN predicted |->
                      IF tmp[j] = cls[i] THEN RankLabel(i) ELSE predicted[j]],
                 tmp, cls, i + 1)

\* mask[mask_data] = predicted + 1
GmmHardMask(n, m, cls, tmp) ==
    LET predicted == Relabel(Zeros(Len(tmp)), tmp, cls, 0)
    IN  Put(Zeros(n), m, [j \in 1 .. Len(tmp) |-> predicted[j] + 1])

\* predicted_proba[:, c] for the i-th class c of the ordering.
ProbaColumnUnordered(proba, cls, i) == [j \in 1 .. Len(proba) |-> proba[j][i]]

ProbaColumn(proba, cls, i) == [j \in 1 .. Len(proba) |-> proba[j][cls[i]]]

\* for i, c in enumerate(classes): mask[mask_data, i] = predicted_proba[:, c]
RECURSIVE GmmScatterFrom(_, _, _, _, _)
GmmScatterFrom(a, m, proba, cls, i) ==
    IF i >= NumComponents THEN a
    ELSE GmmScatterFrom(PutSlice(a, i, m, ProbaColumn(proba, cls, i)), m, proba, cls, i + 1)

GmmSoftMask(n, m, cls, proba) == GmmScatterFrom(Zeros3(n), m, proba, cls, 0)

\* ------------------------------------------------------------ the call

NoValue == <<>>

\* Three centers, weights or means: every ordering of three values, ties
\* included, once (the values used are 1 .. m for some m).
Keys ==
    {k \in [Clusters -> Levels] :
        \A c \in Clusters : k[c] = 1 \/ \E d \in Clusters : k[d] = k[c] - 1}

\* Per-voxel memberships / posteriors over the three classes, summing to 1.
Partition == {f \in [Clusters -> 0 .. Unit] : f[0] + f[1] + f[2] = Unit}

Init ==
    /\ fn \in {"fcm", "gmm"}
    /\ has_mask \in BOOLEAN
    \* Without a brain mask the image decides the inclusion mask, voxel by
    \* voxel.  With one, no intensity is ever compared: the image is then all
    \* background or all foreground.
    /\ img_data \in (IF has_mask THEN UniformSeqsUpTo(Intensities, MaxLen)
                                 ELSE SeqsUpTo(Intensities, MaxLen))
    /\ brain_mask \in (IF has_mask THEN SeqsUpTo(MaskValues, MaxLen) ELSE {NoValue})
    /\ hard_seg \in BOOLEAN
    /\ return_wm_peak \in (IF fn = "gmm" THEN BOOLEAN ELSE {FALSE})
    /\ contrast \in (IF fn = "gmm" THEN Contrasts ELSE {"t1"})
    /\ pc = "call"
    /\ mask_data = NoValue
    /\ brain = NoValue
    /\ fit_invoked = FALSE
    /\ t1_cntr = NoValue
    /\ t1_mem = NoValue
    /\ weights = NoValue
    /\ means = NoValue
    /\ classes = NoValue
    /\ tmp_predicted = NoValue
    /\ predicted_proba = NoValue
    /\ ret_kind = "none"
    /\ mask = NoValue
    /\ wm_peak = 0
    /\ err = ""

inputs == <<fn, img_data, has_mask, brain_mask, contrast, return_wm_peak, hard_seg>>
fitted == <<t1_cntr, t1_mem, weights, means, classes, tmp_predicted, predicted_proba>>
result == <<ret_kind, mask, wm_peak>>

\* img_data = img.get_data(); mask_data = brain_mask.get_data() > 0, or img_data > 0.
MakeMask ==
    /\ pc = "call"
    /\ mask_data' = InclusionMask(img_data, has_mask, brain_mask)
    /\ pc' = "masked"
    /\ UNCHANGED <<inputs, brain, fit_invoked, fitted, result, err>>

\* img_data[mask_data] with a mask of another shape: numpy raises IndexError.
ExtractMismatch ==
    /\ pc = "masked"
    /\ Len(mask_data) # Len(img_data)
    /\ err' = "IndexError"
    /\ pc' = "raised"
    /\ UNCHANGED <<inputs, mask_data, brain, fit_invoked, fitted, result>>

\* fcm: img_data[mask_data].reshape(-1, 0) of no element: numpy raises
\* ValueError while the argument of cmeans is still being built.
FcmReshapeEmpty ==
    /\ pc = "masked"
    /\ fn = "fcm"
    /\ Len(mask_data) = Len(img_data)
    /\ CountTrue(mask_data) = 0
    /\ err' = "ValueError"
    /\ pc' = "raised"
    /\ UNCHANGED <<inputs, mask_data, brain, fit_invoked, fitted, result>>

\* The masked intensity vector, in mask indexing order.
Extract ==
    /\ pc = "masked"
    /\ Len(mask_data) = Len(img_data)
    /\ fn = "fcm" => CountTrue(mask_data) > 0
    /\ brain' = Take(img_data, mask_data)
    /\ pc' = "extracted"
    /\ UNCHANGED <<inputs, mask_data, fit_invoked, fitted, result, err>>

\* [t1_cntr, t1_mem, ...] = cmeans(...): three centers and, per cluster, one
\* membership row over the masked voxels; a voxel's memberships sum to 1.
\* Then t1_mem_list, the scatter loop and the hard_seg branch; return mask.
FcmFitReturn ==
    /\ pc = "extracted"
    /\ fn = "fcm"
    /\ \E cntr \in Keys, u \in [1 .. Len(brain) -> Partition] :
        /\ t1_cntr' = cntr
        /\ t1_mem' = [c \in Clusters |-> [j \in 1 .. Len(brain) |-> u[j][c]]]
    /\ fit_invoked' = TRUE
    /\ mask' = FcmResult(Len(img_data), mask_data, t1_cntr', t1_mem', hard_seg)
    /\ ret_kind' = (IF hard_seg THEN "hard" ELSE "soft")
    /\ pc' = "returned"
    /\ UNCHANGED <<inputs, mask_data, brain, weights, means, classes, tmp_predicted,
                   predicted_proba, wm_peak, err>>

\* gmm.fit(brain) rejects its data (always so when there is none; sklearn
\* also refuses fewer samples than components): ValueError.
GmmFitRaises ==
    /\ pc = "extracted"
    /\ fn = "gmm"
    /\ fit_invoked' = TRUE
    /\ err' = "ValueError"
    /\ pc' = "raised"
    /\ UNCHANGED <<inputs, mask_data, brain, fitted, result>>

\* gmm.fit(brain); weights = gmm.weights_
GmmFit ==
    /\ pc = "extracted"
    /\ fn = "gmm"
    /\ Len(brain) > 0
    /\ weights' \in Keys
    /\ fit_invoked' = TRUE
    /\ pc' = "fitted"
    /\ UNCHANGED <<inputs, mask_data, brain, t1_cntr, t1_mem, means, classes,
                   tmp_predicted, predicted_proba, result, err>>

\* if return_wm_peak: means = gmm.means_.T.squeeze(); return wm_peak
GmmReturnPeak ==
    /\ pc = "fitted"
    /\ fn = "gmm"
    /\ return_wm_peak
    /\ means' \in Keys
    /\ wm_peak' = WmPeak(means', weights, contrast)
    /\ ret_kind' = "peak"
    /\ pc' = "returned"
    /\ UNCHANGED <<inputs, mask_data, brain, fit_invoked, t1_cntr, t1_mem, weights,
                   classes, tmp_predicted, predicted_proba, mask, err>>

\* classes = np.argsort(weights); hard_seg: gmm.predict, relabel, scatter.
GmmReturnHard ==
    /\ pc = "fitted"
    /\ fn = "gmm"
    /\ ~return_wm_peak
    /\ hard_seg
    /\ classes' \in Argsort(weights)
    /\ tmp_predicted' \in [1 .. Len(brain) -> Components]
    /\ mask' = GmmHardMask(Len(img_data), mask_data, classes', tmp_predicted')
    /\ ret_kind' = "hard"
    /\ pc' = "returned"
    /\ UNCHANGED <<inputs, mask_data, brain, fit_invoked, t1_cntr, t1_mem, weights,
                   means, predicted_proba, wm_peak, err>>

\* classes = np.argsort(weights); else: gmm.predict_proba, scatter by class.
GmmReturnSoft ==
    /\ pc = "fitted"
    /\ fn = "gmm"
    /\ ~return_wm_peak
    /\ ~hard_seg
    /\ classes' \in Argsort(weights)
    /\ predicted_proba' \in [1 .. Len(brain) -> Partition]
    /\ mask' = GmmSoftMask(Len(img_data), mask_data, classes', predicted_proba')
    /\ ret_kind' = "soft"
    /\ pc' = "returned"
    /\ UNCHANGED <<inputs, mask_data, brain, fit_invoked, t1_cntr, t1_mem, weights,
                   means, tmp_predicted, wm_peak, err>>

Next ==
    \/ MakeMask
    \/ ExtractMismatch
    \/ FcmReshapeEmpty
    \/ Extract
    \/ FcmFitReturn
    \/ GmmFitRaises
    \/ GmmFit
    \/ GmmReturnPeak
    \/ GmmReturnHard
    \/ GmmReturnSoft

Spec == Init /\ [][Next]_vars

\* ------------------------------------------------------------ properties

Voxels == 1 .. Len(img_data)

\* The inclusion mask, read off the arguments of the call.
Included(x) == IF has_mask THEN brain_mask[x] > 0 ELSE img_data[x] > 0

\* The place of an included voxel in the masked intensity vector.
Ord(x) == Cardinality({y \in 1 .. x : Included(y)})

\* Class orderings: the permutations that put the keys in ascending order.
ClassOrderings(key) ==
    {q \in Permutations3 : \A i, j \in Components : i < j => key[q[i]] <= key[q[j]]}

PairwiseDistinct(key) == \A a, b \in Components : a # b => key[a] # key[b]

ReturnedHard == pc = "returned" /\ ret_kind = "hard"
ReturnedSoft == pc = "returned" /\ ret_kind = "soft"
ReturnedPeak == pc = "returned" /\ fn = "gmm" /\ return_wm_peak

\* C1: a hard segmentation has the image's shape, holds a nonzero label at
\* every included voxel and 0 at every excluded one, so it has as many
\* nonzero voxels as the inclusion mask has true ones.
C1_HardSegCoversInclusionMask ==
    ReturnedHard =>
        /\ Len(mask) = Len(img_data)
        /\ \A x \in Voxels : Included(x) <=> mask[x] # 0
        /\ Cardinality({x \in Voxels : mask[x] # 0}) = Cardinality({x \in Voxels : Included(x)})

C1_Witness ==
    /\ ReturnedHard
    /\ fn = "gmm"
    /\ has_mask
    /\ \E x \in Voxels : Included(x)
    /\ \E x \in Voxels : ~Included(x) /\ img_data[x] > 0

\* C2: in a soft output the three class values sum to 1 at every included
\* voxel and are all 0 at every excluded voxel.
C2_SoftSumsToOne ==
    ReturnedSoft =>
        /\ Len(mask) = Len(img_data)
        /\ \A x \in Voxels :
            IF Included(x) THEN mask[x][0] + mask[x][1] + mask[x][2] = Unit
            ELSE \A i \in Clusters : mask[x][i] = 0

C2_Witness ==
    /\ ReturnedSoft
    /\ fn = "fcm"
    /\ \E x \in Voxels : Included(x) /\ mask[x][2] > 0 /\ mask[x][2] < Unit
    /\ \E x \in Voxels : ~Included(x)

\* The output of the same call had the fit handed back its raw components in
\* the order p (raw component c of that fit is component p[c] of this one).
SameUnderPermutation(p) ==
    LET n == Len(img_data)
        inv == [c \in Components |-> CHOOSE a \in Components : p[a] = c]
    IN  IF fn = "fcm"
        THEN mask = FcmResult(n, mask_data, [c \in Clusters |-> t1_cntr[p[c]]],
                              [c \in Clusters |-> t1_mem[p[c]]], hard_seg)
        ELSE \A cls \in Argsort([c \in Components |-> weights[p[c]]]) :
                IF hard_seg
                THEN mask = GmmHardMask(n, mask_data, cls,
                                [j \in 1 .. Len(tmp_predicted) |-> inv[tmp_predicted[j]]])
                ELSE mask = GmmSoftMask(n, mask_data, cls,
                                [j \in 1 .. Len(predicted_proba) |->
                                    [c \in Components |-> predicted_proba[j][p[c]]]])

\* C3 as claimed: the returned mask is the same for every order of the raw
\* components, equal centers or equal weights included.
C3_PermutationStableAlways ==
    (ReturnedHard \/ ReturnedSoft) => \A p \in Permutations3 : SameUnderPermutation(p)

\* C3 as amended: the returned mask is the same for every order of the raw
\* components whenever the three centers (fcm) or the three weights (gmm)
\* are pairwise distinct.
C3_PermutationStableWhenDistinct ==
    ((ReturnedHard \/ ReturnedSoft)
        /\ PairwiseDistinct(IF fn = "fcm" THEN t1_cntr ELSE weights))
    => \A p \in Permutations3 : SameUnderPermutation(p)

C3_Witness ==
    /\ ReturnedSoft
    /\ fn = "gmm"
    /\ PairwiseDistinct(weights)
    /\ weights[0] > weights[1]
    /\ \E j \in 1 .. Len(predicted_proba) : predicted_proba[j][0] # predicted_proba[j][1]

\* C4: with return_wm_peak and contrast 't1' the call returns the greatest
\* of the three means, as a scalar and no array, whatever hard_seg is.
C4_T1PeakIsMaxMean ==
    (ReturnedPeak /\ contrast = "t1") =>
        /\ ret_kind = "peak"
        /\ mask = NoValue
        /\ \A c \in Components : means[c] <= wm_peak
        /\ \E c \in Components : means[c] = wm_peak

C4_Witness ==
    /\ ReturnedPeak
    /\ contrast = "t1"
    /\ hard_seg
    /\ \E c \in Components :
        /\ \A d \in Components : d # c => weights[d] < weights[c]
        /\ means[c] < wm_peak

\* C5: with return_wm_peak and any contrast but 't1' the call returns the
\* mean of a component of greatest weight, and a call that got past the fit
\* never raises.
C5_OtherPeakIsHeaviestMean ==
    /\ (ReturnedPeak /\ contrast # "t1") =>
        /\ ret_kind = "peak"
        /\ \E c \in Components :
            /\ \A d \in Components : weights[d] <= weights[c]
            /\ wm_peak = means[c]
    /\ (fn = "gmm" /\ return_wm_peak /\ pc = "raised") => weights = NoValue

C5_Witness ==
    /\ ReturnedPeak
    /\ contrast = "unrecognized"
    /\ \E c \in Components :
        /\ \A d \in Components : d # c => weights[d] < weights[c]
        /\ wm_peak = means[c]
        /\ \E d \in Components : means[d] > means[c]

\* C6 as claimed: with an inclusion mask of the image's shape that selects
\* no voxel, the call raises EmptyMaskError, the fit is never entered and
\* nothing is returned.
C6_EmptyMaskRaisesBeforeFit ==
    (/\ pc \in {"extracted", "fitted", "returned", "raised"}
     /\ Len(mask_data) = Len(img_data)
     /\ \A x \in Voxels : ~Included(x))
    => (pc = "raised" /\ err = "EmptyMaskError" /\ ~fit_invoked /\ ret_kind = "none")

\* C7 as claimed: with a brain mask of another shape than the image, the
\* call raises ShapeMismatch, nothing is extracted, the fit is never entered
\* and nothing is returned.
C7_ShapeMismatchRaises ==
    (/\ pc \in {"extracted", "fitted", "returned", "raised"}
     /\ has_mask
     /\ Len(brain_mask) # Len(img_data))
    => (/\ pc = "raised" /\ err = "ShapeMismatch"
        /\ brain = NoValue /\ ~fit_invoked /\ ret_kind = "none")

\* C8: in gmm's hard segmentation an included voxel whose predicted component
\* has 1-based rank r by ascending weight holds r + 1, one of 2, 3, 4, and
\* an excluded voxel holds 0.
C8_GmmHardIsRankPlusOne ==
    (ReturnedHard /\ fn = "gmm") =>
        \E q \in ClassOrderings(weights) :
            \A x \in Voxels :
                IF Included(x)
                THEN /\ mask[x] \in {2, 3, 4}
                     /\ \E r \in 1 .. NumComponents :
                            q[r - 1] = tmp_predicted[Ord(x)] /\ mask[x] = r + 1
                ELSE mask[x] = 0

C8_Witness ==
    /\ ReturnedHard
    /\ fn = "gmm"
    /\ PairwiseDistinct(weights)
    /\ weights[0] > weights[1]
    /\ \E x, y \in Voxels : mask[x] = 2 /\ mask[y] = 4

\* C9: in fcm's hard segmentation an included voxel holds 1 + the place, by
\* ascending center, of a cluster of greatest membership there, one of 1, 2,
\* 3, and an excluded voxel holds 0.
C9_FcmHardFollowsCenters ==
    (ReturnedHard /\ fn = "fcm") =>
        \A x \in Voxels :
            IF Included(x)
            THEN \E q \in ClassOrderings(t1_cntr), i \in Clusters :
                    /\ \A d \in Clusters : t1_mem[d][Ord(x)] <= t1_mem[q[i]][Ord(x)]
                    /\ mask[x] = i + 1
            ELSE mask[x] = 0

C9_Witness ==
    /\ ReturnedHard
    /\ fn = "fcm"
    /\ t1_cntr[0] > t1_cntr[1]
    /\ t1_cntr[1] > t1_cntr[2]
    /\ \E x, y \in Voxels :
        /\ mask[x] = 1 /\ t1_mem[2][Ord(x)] = Unit
        /\ mask[y] = 3 /\ t1_mem[0][Ord(y)] = Unit

\* C10: gmm's soft output is a positional round trip: slice i holds, at the
\* k-th true position of the inclusion mask, the posterior of the k-th masked
\* intensity for the component of i-th smallest weight; each component fills
\* one slice, and every excluded position is 0.
C10_GmmSoftRoundTrip ==
    (ReturnedSoft /\ fn = "gmm") =>
        \E q \in ClassOrderings(weights) :
            \A x \in Voxels : \A i \in Components :
                mask[x][i] = (IF Included(x) THEN predicted_proba[Ord(x)][q[i]] ELSE 0)

C10_Witness ==
    /\ ReturnedSoft
    /\ fn = "gmm"
    /\ weights[0] > weights[1]
    /\ weights[1] > weights[2]
    /\ \E x, y \in Voxels :
        /\ x < y /\ Included(x) /\ Included(y)
        /\ predicted_proba[Ord(x)] # predicted_proba[Ord(y)]
        /\ predicted_proba[Ord(x)][0] # predicted_proba[Ord(x)][2]

====
